---- MODULE Spec2Model ----
(***************************************************************************)
(* A model of the tern-parser pipeline of src/src/main.rs:                 *)
(*   eval_expr = lexicon ; Parser::parse ; Expression::eval.               *)
(* The lexer advances one iteration of its `loop` per step, the recursive  *)
(* descent parser one function body segment per step with an explicit call *)
(* stack, and the evaluator is a recursive operator applied in one step.   *)
(***************************************************************************)
EXTENDS Integers, Sequences, FiniteSets, TLC

VARIABLES
    input,      \* the String handed to eval_expr, a sequence of characters
    pc,         \* position of the pipeline: lex, parse, primary, loop, assert, eval, done
    pos,        \* number of characters consumed from lexicon's `iter`
    leftover,   \* lexicon's `leftover: Option<char>`: <<>> or <<ch>>
    tokens,     \* lexicon's `tokens` vector, then the vector eval_expr iterates
    cur,        \* number of tokens consumed from Parser::iter
    stack,      \* the parser's pending calls, innermost first
    parsed,     \* the value of parser.parse(): none, ok(ast) or err(e)
    outcome     \* how eval_expr ended: none, ok(i64), err(SyntaxError), panic

vars == <<input, pc, pos, leftover, tokens, cur, stack, parsed, outcome>>

-----------------------------------------------------------------------------
(* Bounds of the checked input space.                                      *)

MaxLen == 3
MaxExprLen == 4
MaxOps == 2

\* characters of the exhaustive short inputs
Alphabet == {" ", "\t", "a", "b", "c", "d", "e", "f", "0", "2", "3", "x"}

\* characters of the longer expression inputs
ExprAlphabet == {"a", "b", "c", "d", "e", "f", "2", "3"}

\* operands and operators of the operator chains
Operands == {<<"0">>, <<"2">>, <<"3">>, <<"b", "2">>, <<"e", "3", "f">>}
OperatorChars == {"a", "b", "c", "d"}

-----------------------------------------------------------------------------
(* Characters and numbers.                                                 *)

DigitChars == <<"0", "1", "2", "3", "4", "5", "6", "7", "8", "9">>

is_ascii_digit(c) == \E i \in 1..Len(DigitChars) : DigitChars[i] = c

DigitVal(c) == (CHOOSE i \in 1..Len(DigitChars) : DigitChars[i] = c) - 1

\* the decimal digits of i64::MAX = 9223372036854775807
I64MaxDigits ==
    <<"9", "2", "2", "3", "3", "7", "2", "0", "3", "6",
      "8", "5", "4", "7", "7", "5", "8", "0", "7">>

RECURSIVE StripZeros(_)
StripZeros(ds) ==
    IF Len(ds) > 1 /\ Head(ds) = "0" THEN StripZeros(Tail(ds)) ELSE ds

RECURSIVE DecValue(_)
DecValue(ds) ==
    IF ds = <<>> THEN 0
    ELSE DecValue(SubSeq(ds, 1, Len(ds) - 1)) * 10 + DigitVal(ds[Len(ds)])

\* a <= b for two digit strings of the same length
RECURSIVE DigitsLE(_, _)
DigitsLE(a, b) ==
    IF a = <<>> THEN TRUE
    ELSE IF DigitVal(Head(a)) # DigitVal(Head(b))
         THEN DigitVal(Head(a)) < DigitVal(Head(b))
         ELSE DigitsLE(Tail(a), Tail(b))

\* the digit string denotes a value of at most i64::MAX
FitsI64(ds) ==
    LET s == StripZeros(ds) IN
    \/ Len(s) < Len(I64MaxDigits)
    \/ Len(s) = Len(I64MaxDigits) /\ DigitsLE(s, I64MaxDigits)

\* A run longer than half the width of i64::MAX exceeds the integers of the
\* model checker; its value is carried as its canonical digit string.
IsWide(ds) == 2 * Len(StripZeros(ds)) > Len(I64MaxDigits)

I64Value(ds) ==
    IF IsWide(ds) THEN [wide |-> StripZeros(ds)] ELSE DecValue(StripZeros(ds))

\* str::parse::<i64>() on a non-empty string of ASCII digits
ParseI64(ds) ==
    IF FitsI64(ds) THEN [ok |-> TRUE, val |-> I64Value(ds)]
    ELSE [ok |-> FALSE]

-----------------------------------------------------------------------------
(* Tokens, operators, expressions, errors.                                 *)

Plus == [type |-> "Plus"]
Dash == [type |-> "Dash"]
Star == [type |-> "Star"]
Slash == [type |-> "Slash"]
LeftParen == [type |-> "LeftParen"]
RightParen == [type |-> "RightParen"]
End == [type |-> "End"]
Number(n) == [type |-> "Number", n |-> n]

ENumber(n) == [e |-> "Number", n |-> n]
EUnary(op, x) == [e |-> "Unary", op |-> op, arg |-> x]
EBinary(op, l, r) == [e |-> "Binary", op |-> op, lhs |-> l, rhs |-> r]

new_lex_error(message) == [message |-> message, level |-> "Lexicon"]
new_parse_error(message) == [message |-> message, level |-> "Parse"]

None == [kind |-> "none"]
Ok(v) == [kind |-> "ok", val |-> v]
Err(e) == [kind |-> "err", error |-> e]
Panic(why) == [kind |-> "panic", why |-> why]

-----------------------------------------------------------------------------
(* Expression::eval.                                                       *)

\* The values of the checked expressions stay far inside i64, where the
\* operators of i64 are those of the integers.

\* i64 division truncates toward zero
TruncDiv(a, b) ==
    LET absA == IF a < 0 THEN -a ELSE a
        absB == IF b < 0 THEN -b ELSE b
        q == absA \div absB
    IN IF (a < 0) = (b < 0) THEN q ELSE -q

RECURSIVE eval(_)
eval(x) ==
    IF x.e = "Number" THEN Ok(x.n)
    ELSE IF x.e = "Unary" THEN
        LET v == eval(x.arg) IN
        IF v.kind # "ok" THEN v ELSE Ok(-1 * v.val)
    ELSE
        LET v1 == eval(x.lhs) IN
        IF v1.kind # "ok" THEN v1 ELSE
        LET v2 == eval(x.rhs) IN
        IF v2.kind # "ok" THEN v2 ELSE
        CASE x.op = "Add" -> Ok(v1.val + v2.val)
          [] x.op = "Subtract" -> Ok(v1.val - v2.val)
          [] x.op = "Multiply" -> Ok(v1.val * v2.val)
          [] x.op = "Divide" ->
                IF v2.val = 0 THEN Panic("attempt to divide by zero")
                ELSE Ok(TruncDiv(v1.val, v2.val))
          [] OTHER -> Panic("Unreachable code for expr")

-----------------------------------------------------------------------------
(* lexicon.  Its locals are a record st = [pos, leftover, tokens, ret]:    *)
(* pos counts the characters consumed from `iter`, leftover is the         *)
(* Option<char> (<<>> or <<ch>>), ret is None while the loop runs and the  *)
(* outcome of the function afterwards.  Each arm of the loop is an         *)
(* operator from the locals before an iteration to the locals after it.    *)

LexStart == [pos |-> 0, leftover |-> <<>>, tokens |-> <<>>, ret |-> None]

\* leftover is None and iter.next() is None
AtEndOfInput(s, st) == st.leftover = <<>> /\ st.pos = Len(s)

\* the character `ch` of this iteration
Ch(s, st) == IF st.leftover # <<>> THEN st.leftover[1] ELSE s[st.pos + 1]

\* characters consumed from `iter` once `ch` is bound
PosAfterCh(st) == IF st.leftover # <<>> THEN st.pos ELSE st.pos + 1

IsSymbol(c) == c \in {"a", "b", "c", "d", "e", "f"}

SymbolToken(c) ==
    CASE c = "a" -> Plus
      [] c = "b" -> Dash
      [] c = "c" -> Star
      [] c = "d" -> Slash
      [] c = "e" -> LeftParen
      [] c = "f" -> RightParen

\* the characters take_while accepts from position p on: the maximal digit run
RECURSIVE DigitRun(_, _)
DigitRun(s, p) ==
    IF p < Len(s) /\ is_ascii_digit(s[p + 1])
    THEN <<s[p + 1]>> \o DigitRun(s, p + 1)
    ELSE <<>>

\* (mutant) the End token is not pushed
BreakArmNoEnd(s, st) ==
    [st EXCEPT !.ret = Ok(st.tokens)]

\* `None => break`, then tokens.push(Token::End) and Ok(tokens)
BreakArm(s, st) ==
    [st EXCEPT !.tokens = Append(st.tokens, End),
               !.ret = Ok(Append(st.tokens, End))]

\* (mutant) the space is treated like any other unknown character
SpaceArmRejected(s, st) ==
    [pos |-> PosAfterCh(st),
     leftover |-> <<>>,
     tokens |-> <<>>,
     ret |-> Err(new_lex_error(<<"Unrecognized character", Ch(s, st), "Skipping it.">>))]

\* `' ' => continue`
SpaceArm(s, st) ==
    [st EXCEPT !.pos = PosAfterCh(st), !.leftover = <<>>]

\* the arms 'a' .. 'f'
SymbolArm(s, st) ==
    [st EXCEPT !.pos = PosAfterCh(st), !.leftover = <<>>,
               !.tokens = Append(st.tokens, SymbolToken(Ch(s, st)))]

\* the arm `ch if ch.is_ascii_digit()`: take_while consumes the digits that
\* follow and the first character that is not a digit, which goes to
\* `leftover`; parse().unwrap() panics when the run does not fit an i64
NumberArm(s, st) ==
    LET number_stream == DigitRun(s, PosAfterCh(st))
        stop == PosAfterCh(st) + Len(number_stream)
        number == ParseI64(<<Ch(s, st)>> \o number_stream)
    IN IF number.ok
       THEN [pos |-> IF stop < Len(s) THEN stop + 1 ELSE stop,
             leftover |-> IF stop < Len(s) THEN <<s[stop + 1]>> ELSE <<>>,
             tokens |-> Append(st.tokens, Number(number.val)),
             ret |-> None]
       ELSE [pos |-> IF stop < Len(s) THEN stop + 1 ELSE stop,
             leftover |-> IF stop < Len(s) THEN <<s[stop + 1]>> ELSE <<>>,
             tokens |-> <<>>,
             ret |-> Panic("called Result::unwrap() on an Err value")]

\* the arm `_`: return Err(new_lex_error(..)); the vector is dropped
UnrecognizedArm(s, st) ==
    [pos |-> PosAfterCh(st),
     leftover |-> <<>>,
     tokens |-> <<>>,
     ret |-> Err(new_lex_error(<<"Unrecognized character", Ch(s, st), "Skipping it.">>))]

\* one iteration of the loop
LexIteration(s, st) ==
    IF AtEndOfInput(s, st) THEN BreakArm(s, st)
    ELSE IF Ch(s, st) = " " THEN SpaceArm(s, st)
    ELSE IF IsSymbol(Ch(s, st)) THEN SymbolArm(s, st)
    ELSE IF is_ascii_digit(Ch(s, st)) THEN NumberArm(s, st)
    ELSE UnrecognizedArm(s, st)

\* lexicon(expression): the loop run to its return
RECURSIVE LexLoop(_, _)
LexLoop(s, st) ==
    IF st.ret # None THEN st.ret ELSE LexLoop(s, LexIteration(s, st))

lexicon(s) == LexLoop(s, LexStart)

(* The pipeline runs lexicon one iteration per step on `input`. *)

Locals == [pos |-> pos, leftover |-> leftover, tokens |-> tokens, ret |-> None]

\* the iteration ends in st; an Ok(tokens) goes on to the parser, an error
\* returns from eval_expr through `?`, a panic unwinds it
LexTo(st) ==
    /\ pos' = st.pos
    /\ leftover' = st.leftover
    /\ tokens' = st.tokens
    /\ pc' = IF st.ret = None THEN "lex" ELSE IF st.ret.kind = "ok" THEN "parse" ELSE "done"
    /\ outcome' = IF st.ret = None \/ st.ret.kind = "ok" THEN outcome ELSE st.ret
    /\ UNCHANGED <<input, cur, stack, parsed>>

LexBreak ==
    /\ pc = "lex"
    /\ AtEndOfInput(input, Locals)
    /\ LexTo(BreakArm(input, Locals))

LexSpace ==
    /\ pc = "lex"
    /\ ~AtEndOfInput(input, Locals)
    /\ Ch(input, Locals) = " "
    /\ LexTo(SpaceArm(input, Locals))

LexSymbol ==
    /\ pc = "lex"
    /\ ~AtEndOfInput(input, Locals)
    /\ IsSymbol(Ch(input, Locals))
    /\ LexTo(SymbolArm(input, Locals))

LexNumber ==
    /\ pc = "lex"
    /\ ~AtEndOfInput(input, Locals)
    /\ is_ascii_digit(Ch(input, Locals))
    /\ LexTo(NumberArm(input, Locals))

LexUnrecognized ==
    /\ pc = "lex"
    /\ ~AtEndOfInput(input, Locals)
    /\ LET ch == Ch(input, Locals)
       IN ch # " " /\ ~IsSymbol(ch) /\ ~is_ascii_digit(ch)
    /\ LexTo(UnrecognizedArm(input, Locals))

-----------------------------------------------------------------------------
(* Parser: the pending calls are frames, innermost first.  A frame names   *)
(* the function, the place in it that waits for the callee, and the locals *)
(* it holds there.                                                         *)

NoExpr == [e |-> "none"]

\* parse() waiting for expression()
ParseFrame == [fn |-> "parse", at |-> "expression", op |-> "none", expr |-> NoExpr]
\* expression() waiting for its first primary_expression()
ExprFirst == [fn |-> "expression", at |-> "first", op |-> "none", expr |-> NoExpr]
\* expression() waiting for the right operand of op, holding `expr`
ExprRhs(op, x) == [fn |-> "expression", at |-> "rhs", op |-> op, expr |-> x]
\* expression() inside its loop, holding `expr`
ExprLoop(x) == [fn |-> "expression", at |-> "loop", op |-> "none", expr |-> x]
\* primary_expression() waiting for expression() after LeftParen
PrimParen == [fn |-> "primary", at |-> "paren", op |-> "none", expr |-> NoExpr]
\* primary_expression() waiting for primary_expression() after Dash
PrimNeg == [fn |-> "primary", at |-> "neg", op |-> "none", expr |-> NoExpr]
\* a function holding the expression `x` while it calls assert_next
Holding(frame, x) == [frame EXCEPT !.at = "assert", !.expr = x]

\* the cursor still has a token
HasNext == cur < Len(tokens)
NextToken == tokens[cur + 1]

\* the arms of the match in Parser::expression
IsBinaryToken(t) == t \in {Plus, Dash, Star, Slash}

OperatorOf(t) ==
    CASE t = Plus -> "Add"
      [] t = Dash -> "Subtract"
      [] t = Star -> "Multiply"
      [] t = Slash -> "Divide"

\* (mutant) the operands of the Binary node are exchanged
RECURSIVE ReturnPrimarySwapped(_, _)
ReturnPrimarySwapped(st, x) ==
    LET top == Head(st) IN
    IF top.fn = "primary"
    THEN ReturnPrimarySwapped(Tail(st), EUnary("Negative", x))
    ELSE IF top.at = "first"
    THEN <<ExprLoop(x)>> \o Tail(st)
    ELSE <<ExprLoop(EBinary(top.op, x, top.expr))>> \o Tail(st)

\* (mutant) a pending negation wraps the expression its caller has built so
\* far, not the single primary that follows the Dash
RECURSIVE ReturnPrimaryLate(_, _)
ReturnPrimaryLate(st, x) ==
    LET top == Head(st) IN
    IF top.fn = "primary"
    THEN LET r == ReturnPrimaryLate(Tail(st), x)
         IN <<[Head(r) EXCEPT !.expr = EUnary("Negative", @)]>> \o Tail(r)
    ELSE IF top.at = "first"
    THEN <<ExprLoop(x)>> \o Tail(st)
    ELSE <<ExprLoop(EBinary(top.op, top.expr, x))>> \o Tail(st)

\* primary_expression returns Ok(x) to the frames st: a pending negation
\* wraps it and returns in turn, a pending expression() takes it as its
\* first operand or as the right operand of its operator and loops
RECURSIVE ReturnPrimary(_, _)
ReturnPrimary(st, x) ==
    LET top == Head(st) IN
    IF top.fn = "primary"
    THEN ReturnPrimary(Tail(st), EUnary("Negative", x))
    ELSE IF top.at = "first"
    THEN <<ExprLoop(x)>> \o Tail(st)
    ELSE <<ExprLoop(EBinary(top.op, top.expr, x))>> \o Tail(st)

\* eval_expr builds the cursor and the parser and calls parse(), which calls
\* expression(), which calls primary_expression()
ParserStart ==
    /\ pc = "parse"
    /\ cur' = 0
    /\ stack' = <<ExprFirst, ParseFrame>>
    /\ pc' = "primary"
    /\ UNCHANGED <<input, pos, leftover, tokens, parsed, outcome>>

\* the error e leaves every pending call through `?`; eval_expr returns it
Fail(e) ==
    /\ stack' = <<>>
    /\ parsed' = Err(e)
    /\ outcome' = Err(e)
    /\ pc' = "done"

\* an unwrap() of None unwinds the pipeline
Unwind(why) ==
    /\ stack' = <<>>
    /\ outcome' = Panic(why)
    /\ pc' = "done"
    /\ UNCHANGED parsed

\* (mutant) a token that starts no primary is discarded and the next one read
PrimaryExpressionDiscard ==
    /\ pc = "primary"
    /\ IF ~HasNext
       THEN /\ Unwind("called Option::unwrap() on a None value")
            /\ UNCHANGED cur
       ELSE /\ cur' = cur + 1
            /\ CASE NextToken.type = "Number" ->
                      /\ stack' = ReturnPrimary(stack, ENumber(NextToken.n))
                      /\ pc' = "loop"
                      /\ UNCHANGED <<parsed, outcome>>
                 [] NextToken = LeftParen ->
                      /\ stack' = <<ExprFirst, PrimParen>> \o stack
                      /\ UNCHANGED <<pc, parsed, outcome>>
                 [] NextToken = Dash ->
                      /\ stack' = <<PrimNeg>> \o stack
                      /\ UNCHANGED <<pc, parsed, outcome>>
                 [] OTHER ->
                      UNCHANGED <<stack, pc, parsed, outcome>>
    /\ UNCHANGED <<input, pos, leftover, tokens>>

\* the body of primary_expression
PrimaryExpression ==
    /\ pc = "primary"
    /\ IF ~HasNext
       THEN /\ Unwind("called Option::unwrap() on a None value")
            /\ UNCHANGED cur
       ELSE /\ cur' = cur + 1
            /\ CASE NextToken.type = "Number" ->
                      /\ stack' = ReturnPrimary(stack, ENumber(NextToken.n))
                      /\ pc' = "loop"
                      /\ UNCHANGED <<parsed, outcome>>
                 [] NextToken = LeftParen ->
                      /\ stack' = <<ExprFirst, PrimParen>> \o stack
                      /\ UNCHANGED <<pc, parsed, outcome>>
                 [] NextToken = Dash ->
                      /\ stack' = <<PrimNeg>> \o stack
                      /\ UNCHANGED <<pc, parsed, outcome>>
                 [] OTHER ->
                      Fail(new_parse_error(<<"Unexpected token", NextToken>>))
    /\ UNCHANGED <<input, pos, leftover, tokens>>

\* one iteration of the loop of expression(): peek().unwrap(), then either
\* consume the operator and call primary_expression(), or break and return
\* Ok(expr) to parse() or to the parenthesis, which call assert_next
ExpressionLoop ==
    /\ pc = "loop"
    /\ IF ~HasNext
       THEN /\ Unwind("called Option::unwrap() on a None value")
            /\ UNCHANGED cur
       ELSE IF IsBinaryToken(NextToken)
       THEN /\ cur' = cur + 1
            /\ stack' = <<ExprRhs(OperatorOf(NextToken), Head(stack).expr)>> \o Tail(stack)
            /\ pc' = "primary"
            /\ UNCHANGED <<parsed, outcome>>
       ELSE /\ stack' = <<Holding(stack[2], Head(stack).expr)>> \o Tail(Tail(stack))
            /\ pc' = "assert"
            /\ UNCHANGED <<cur, parsed, outcome>>
    /\ UNCHANGED <<input, pos, leftover, tokens>>

\* (mutant) the parenthesis is closed by the End token
ExpectedEnd == End

\* the token the caller of assert_next expects
Expected == IF Head(stack).fn = "parse" THEN End ELSE RightParen

\* (mutant) the consumed token is not compared with the expected one
AssertNextAny ==
    /\ pc = "assert"
    /\ IF ~HasNext
       THEN /\ Fail(new_parse_error(<<"End of input unexpected">>))
            /\ UNCHANGED cur
       ELSE /\ cur' = cur + 1
            /\ IF Head(stack).fn = "parse"
               THEN /\ parsed' = Ok(Head(stack).expr)
                    /\ stack' = <<>>
                    /\ pc' = "eval"
                    /\ UNCHANGED outcome
               ELSE /\ stack' = ReturnPrimary(Tail(stack), Head(stack).expr)
                    /\ pc' = "loop"
                    /\ UNCHANGED <<parsed, outcome>>
    /\ UNCHANGED <<input, pos, leftover, tokens>>

\* assert_next(token) and the return of its caller: parse() returns Ok(ast),
\* primary_expression() returns Ok(expr)
AssertNext ==
    /\ pc = "assert"
    /\ IF ~HasNext
       THEN /\ Fail(new_parse_error(<<"End of input unexpected">>))
            /\ UNCHANGED cur
       ELSE /\ cur' = cur + 1
            /\ IF NextToken # Expected
               THEN Fail(new_parse_error(<<"Expected", Expected, "but actual", NextToken>>))
               ELSE IF Head(stack).fn = "parse"
               THEN /\ parsed' = Ok(Head(stack).expr)
                    /\ stack' = <<>>
                    /\ pc' = "eval"
                    /\ UNCHANGED outcome
               ELSE /\ stack' = ReturnPrimary(Tail(stack), Head(stack).expr)
                    /\ pc' = "loop"
                    /\ UNCHANGED <<parsed, outcome>>
    /\ UNCHANGED <<input, pos, leftover, tokens>>

\* `Ok(mut ast) => Ok(ast.eval())`
Evaluate ==
    /\ pc = "eval"
    /\ outcome' = eval(parsed.val)
    /\ pc' = "done"
    /\ UNCHANGED <<input, pos, leftover, tokens, cur, stack, parsed>>

-----------------------------------------------------------------------------
(* The inputs.                                                             *)

RECURSIVE Strings(_, _)
Strings(S, n) ==
    IF n = 0 THEN {<<>>}
    ELSE LET shorter == Strings(S, n - 1)
         IN shorter \cup {Append(s, c) : s \in {t \in shorter : Len(t) = n - 1}, c \in S}

\* digit runs around i64::MAX: a prefix of its digits and one more digit
WideRuns ==
    {SubSeq(I64MaxDigits, 1, k) \o <<d>> :
        k \in (Len(I64MaxDigits) \div 2)..(Len(I64MaxDigits) - 1),
        d \in {"0", "6", "7", "8", "9"}}

WideInputs ==
    {pre \o run \o suf :
        pre \in {<<>>, <<"e">>},
        run \in WideRuns \cup {I64MaxDigits \o <<"0">>},
        suf \in {<<>>, <<" ">>, <<"f">>, <<"x">>}}

\* operand (operator operand)*, with at most n operators
RECURSIVE Chains(_)
Chains(n) ==
    IF n = 0 THEN Operands
    ELSE LET shorter == Chains(n - 1)
         IN shorter \cup {s \o <<c>> \o p : s \in shorter, c \in OperatorChars, p \in Operands}

ShortInputs == Strings(Alphabet, MaxLen)
ExprInputs == Strings(ExprAlphabet, MaxExprLen)
ChainInputs == Chains(MaxOps)

Init ==
    /\ \/ input \in ShortInputs
       \/ input \in ExprInputs
       \/ input \in ChainInputs
       \/ input \in WideInputs
    /\ pc = "lex"
    /\ pos = 0
    /\ leftover = <<>>
    /\ tokens = <<>>
    /\ cur = 0
    /\ stack = <<>>
    /\ parsed = None
    /\ outcome = None

Next ==
    \/ LexBreak
    \/ LexSpace
    \/ LexSymbol
    \/ LexNumber
    \/ LexUnrecognized
    \/ ParserStart
    \/ PrimaryExpression
    \/ ExpressionLoop
    \/ AssertNext
    \/ Evaluate

Spec == Init /\ [][Next]_vars

\* the pipeline on the inputs whose digit runs all fit an i64
InitNarrow ==
    /\ \/ input \in ShortInputs
       \/ input \in ExprInputs
       \/ input \in ChainInputs
    /\ pc = "lex"
    /\ pos = 0
    /\ leftover = <<>>
    /\ tokens = <<>>
    /\ cur = 0
    /\ stack = <<>>
    /\ parsed = None
    /\ outcome = None

SpecNarrow == InitNarrow /\ [][Next]_vars

-----------------------------------------------------------------------------
(* The grammar of section 4.2 of the specification, read off a token       *)
(* sequence ts by position, as the reference the claims are stated with:   *)
(*   expression := primary ( binary-operator primary )*                    *)
(*   primary    := Number | LeftParen expression RightParen | Dash primary *)

BinaryTokens == {"Plus", "Dash", "Star", "Slash"}

OperatorName(t) ==
    CASE t.type = "Plus" -> "Add"
      [] t.type = "Dash" -> "Subtract"
      [] t.type = "Star" -> "Multiply"
      [] t.type = "Slash" -> "Divide"

\* the position after the primary (the expression) that starts at i, or 0
RECURSIVE PrimaryEnd(_, _), ChainEnd(_, _)
PrimaryEnd(ts, i) ==
    IF i > Len(ts) THEN 0
    ELSE IF ts[i].type = "Number" THEN i + 1
    ELSE IF ts[i].type = "Dash" THEN PrimaryEnd(ts, i + 1)
    ELSE IF ts[i].type = "LeftParen" THEN
        LET j == ChainEnd(ts, i + 1) IN
        IF j # 0 /\ j <= Len(ts) /\ ts[j].type = "RightParen" THEN j + 1 ELSE 0
    ELSE 0

ChainEnd(ts, i) ==
    LET j == PrimaryEnd(ts, i) IN
    IF j = 0 THEN 0
    ELSE IF j <= Len(ts) /\ ts[j].type \in BinaryTokens THEN ChainEnd(ts, j + 1)
    ELSE j

\* the tree of the primary (the expression) that starts at i: the operands of
\* a chain nest to the left, one level per operator
RECURSIVE PrimaryTree(_, _), LeftNest(_, _, _)
PrimaryTree(ts, i) ==
    IF ts[i].type = "Number" THEN ENumber(ts[i].n)
    ELSE IF ts[i].type = "Dash" THEN EUnary("Negative", PrimaryTree(ts, i + 1))
    ELSE LeftNest(ts, PrimaryTree(ts, i + 1), PrimaryEnd(ts, i + 1))

LeftNest(ts, acc, j) ==
    IF j <= Len(ts) /\ ts[j].type \in BinaryTokens
    THEN LeftNest(ts, EBinary(OperatorName(ts[j]), acc, PrimaryTree(ts, j + 1)),
                  PrimaryEnd(ts, j + 1))
    ELSE acc

ChainTree(ts, i) == LeftNest(ts, PrimaryTree(ts, i), PrimaryEnd(ts, i))

\* values: [def |-> TRUE, v |-> n], or [def |-> FALSE] where a divisor is 0
Defined(n) == [def |-> TRUE, v |-> n]
Undefined == [def |-> FALSE]

ApplyOperator(op, a, b) ==
    IF ~a.def \/ ~b.def THEN Undefined
    ELSE CASE op = "Plus" -> Defined(a.v + b.v)
           [] op = "Dash" -> Defined(a.v - b.v)
           [] op = "Star" -> Defined(a.v * b.v)
           [] op = "Slash" -> IF b.v = 0 THEN Undefined ELSE Defined(TruncDiv(a.v, b.v))

\* the value of the primary that starts at i, and the left-to-right fold of
\* the operators from position j on over the values of the primaries
RECURSIVE PrimaryValue(_, _), FoldLeft(_, _, _)
PrimaryValue(ts, i) ==
    IF ts[i].type = "Number" THEN Defined(ts[i].n)
    ELSE IF ts[i].type = "Dash" THEN
        LET a == PrimaryValue(ts, i + 1) IN IF a.def THEN Defined(0 - a.v) ELSE Undefined
    ELSE FoldLeft(ts, PrimaryValue(ts, i + 1), PrimaryEnd(ts, i + 1))

FoldLeft(ts, acc, j) ==
    IF j <= Len(ts) /\ ts[j].type \in BinaryTokens
    THEN FoldLeft(ts, ApplyOperator(ts[j].type, acc, PrimaryValue(ts, j + 1)),
                  PrimaryEnd(ts, j + 1))
    ELSE acc

ChainValue(ts, i) == FoldLeft(ts, PrimaryValue(ts, i), PrimaryEnd(ts, i))

\* ts is p0 op1 p1 ... opn pn End
IsChain(ts) == ts # <<>> /\ ChainEnd(ts, 1) = Len(ts) /\ ts[Len(ts)] = End

\* parse() has returned
Parsed == pc \in {"eval", "done"} /\ tokens # <<>>

-----------------------------------------------------------------------------
(* C1: binary operators chain strictly left to right, without precedence.  *)
(* For every token sequence p0 op1 p1 ... opn pn End, Parser::parse        *)
(* returns the left-nested tree Binary(opn, ... Binary(op1, p0, p1) ...,   *)
(* pn) and eval_expr returns the left-to-right fold of the operators over  *)
(* the values of the pi; where the fold has no value, a divisor being 0,   *)
(* eval_expr returns nothing.                                              *)
C1_LeftToRight ==
    (Parsed /\ IsChain(tokens)) =>
        /\ parsed = Ok(ChainTree(tokens, 1))
        /\ (pc = "done" /\ ChainValue(tokens, 1).def) =>
                (outcome.kind = "ok" /\ outcome.val = ChainValue(tokens, 1).v)
        /\ (pc = "done" /\ ~ChainValue(tokens, 1).def) => outcome.kind = "panic"

\* "3a2c3" is (3 + 2) * 3 = 15
C1_Witness ==
    /\ pc = "done"
    /\ input = <<"3", "a", "2", "c", "3">>
    /\ parsed = Ok(EBinary("Multiply", EBinary("Add", ENumber(3), ENumber(2)), ENumber(3)))
    /\ outcome = Ok(15)

-----------------------------------------------------------------------------
(* C2: for every input string eval_expr ends with either an integer result *)
(* or one SyntaxError, never both; no input makes the pipeline end in any  *)
(* other outcome.                                                          *)
C2_ResultOrError ==
    pc = "done" => outcome.kind \in {"ok", "err"}

-----------------------------------------------------------------------------
(* Unrecognized characters.                                                *)

Whitespace == {" ", "\t"}

IsUnrecognized(c) == c \notin Whitespace /\ ~is_ascii_digit(c) /\ ~IsSymbol(c)

HasUnrecognized(s) == \E i \in 1..Len(s) : IsUnrecognized(s[i])

(* C3: an unrecognized character (not whitespace, not a digit, not one of  *)
(* a-f) at any position makes eval_expr return a Lexicon-level error;      *)
(* lexicon returns no tokens and the parser is never run, also when the    *)
(* tokens scanned before it would be a syntax error.                       *)
C3_LexiconError ==
    HasUnrecognized(input) =>
        /\ pc \in {"lex", "done"}
        /\ parsed = None /\ cur = 0 /\ stack = <<>>
        /\ pc = "done" =>
              /\ outcome.kind = "err"
              /\ outcome.error.level = "Lexicon"
              /\ tokens = <<>>

-----------------------------------------------------------------------------
(* The End sentinel.                                                       *)

EndOnlyLast(ts) ==
    /\ ts # <<>>
    /\ ts[Len(ts)] = End
    /\ \A i \in 1..(Len(ts) - 1) : ts[i] # End

(* C4: whenever lexicon succeeds the returned sequence holds exactly one   *)
(* End token, as its last element; End never appears at an earlier         *)
(* position, and the empty input yields exactly <<End>>.                   *)
C4_EndSentinel ==
    /\ pc = "lex" => \A i \in 1..Len(tokens) : tokens[i] # End
    /\ pc \in {"parse", "primary", "loop", "assert", "eval"} => EndOnlyLast(tokens)
    /\ (pc = "done" /\ outcome.kind = "ok") => EndOnlyLast(tokens)
    /\ (pc = "parse" /\ input = <<>>) => tokens = <<End>>

\* lexicon has just returned four tokens, the last of them End
C4_Witness ==
    /\ pc = "parse"
    /\ Len(tokens) = 4
    /\ EndOnlyLast(tokens)

-----------------------------------------------------------------------------
(* C5: Parser::parse succeeds only when one expression consumes every      *)
(* token before End; when a token other than End follows the first         *)
(* complete expression, parse returns a Parse-level error and never the    *)
(* tree of the prefix.                                                     *)
C5_TrailingTokens ==
    Parsed =>
        LET j == ChainEnd(tokens, 1) IN
        /\ (j # 0 /\ j <= Len(tokens) /\ tokens[j] # End) =>
              /\ parsed = Err(new_parse_error(<<"Expected", End, "but actual", tokens[j]>>))
              /\ parsed.error.level = "Parse"
              /\ pc = "done" /\ outcome = parsed
        /\ parsed.kind = "ok" => (IsChain(tokens) /\ cur = Len(tokens))

\* "3f": a stray RightParen after the expression 3
C5_Witness ==
    /\ pc = "done"
    /\ input = <<"3", "f">>
    /\ parsed = Err(new_parse_error(<<"Expected", End, "but actual", RightParen>>))
    /\ outcome = parsed

-----------------------------------------------------------------------------
(* Unmatched parentheses.                                                  *)

\* the parser reaches position i of ts expecting a primary expression, having
\* read the tokens k .. i-1 from `mode` ("primary": a primary is expected,
\* "after": one has just ended) inside `depth` open parentheses
RECURSIVE Reaches(_, _, _, _, _)
Reaches(ts, i, k, mode, depth) ==
    IF k = i THEN mode = "primary"
    ELSE IF mode = "primary" THEN
        IF ts[k].type = "Number" THEN Reaches(ts, i, k + 1, "after", depth)
        ELSE IF ts[k].type = "LeftParen" THEN Reaches(ts, i, k + 1, "primary", depth + 1)
        ELSE IF ts[k].type = "Dash" THEN Reaches(ts, i, k + 1, "primary", depth)
        ELSE FALSE
    ELSE
        IF ts[k].type \in BinaryTokens THEN Reaches(ts, i, k + 1, "primary", depth)
        ELSE IF ts[k].type = "RightParen" /\ depth > 0
             THEN Reaches(ts, i, k + 1, "after", depth - 1)
        ELSE FALSE

ExpectsPrimary(ts, i) == Reaches(ts, i, 1, "primary", 0)

\* the LeftParen at i holds a complete expression that runs to End
Unclosed(ts, i) ==
    /\ ts[i] = LeftParen
    /\ ChainEnd(ts, i + 1) = Len(ts)
    /\ ts[Len(ts)] = End

\* the error names the end of the input: the message of assert_next for an
\* exhausted cursor, or a message whose offending token is End
CitesEnd(e) ==
    \/ Len(e.message) = 1
    \/ Len(e.message) = 2 /\ e.message[2] = End
    \/ Len(e.message) = 4 /\ e.message[4] = End

(* C6 as claimed: for every input in which a LeftParen has no matching     *)
(* RightParen (the expression inside it is complete and the input then     *)
(* ends), eval_expr returns a Parse-level error that cites unexpected end  *)
(* of input.                                                               *)
C6_Original ==
    (pc = "done" /\ tokens # <<>> /\ \E i \in 1..Len(tokens) : Unclosed(tokens, i)) =>
        /\ outcome.kind = "err"
        /\ outcome.error.level = "Parse"
        /\ CitesEnd(outcome.error)

(* C6 as amended: for every token sequence in which the parser reaches a   *)
(* LeftParen where it expects a primary expression, and the expression     *)
(* inside it is complete and followed by End, eval_expr returns the        *)
(* Parse-level error "Expected RightParen but actual End".                 *)
C6_UnclosedParen ==
    (pc = "done" /\ tokens # <<>>
        /\ \E i \in 1..Len(tokens) : Unclosed(tokens, i) /\ ExpectsPrimary(tokens, i)) =>
        /\ outcome = Err(new_parse_error(<<"Expected", RightParen, "but actual", End>>))
        /\ outcome.error.level = "Parse"
        /\ parsed = outcome

\* "e3a2": the parenthesis opened first is never closed
C6_Witness ==
    /\ pc = "done"
    /\ input = <<"e", "3", "a", "2">>
    /\ outcome = Err(new_parse_error(<<"Expected", RightParen, "but actual", End>>))

-----------------------------------------------------------------------------
(* Whitespace.                                                             *)

InsertAt(s, i, c) == SubSeq(s, 1, i) \o <<c>> \o SubSeq(s, i + 1, Len(s))

\* position i lies between two digits of s
InsideDigitRun(s, i) ==
    i >= 1 /\ i < Len(s) /\ is_ascii_digit(s[i]) /\ is_ascii_digit(s[i + 1])

\* lexicon is about to start on one of the short inputs
Starting ==
    pc = "lex" /\ pos = 0 /\ leftover = <<>> /\ tokens = <<>> /\ Len(input) <= MaxLen

\* inserting c anywhere outside a digit run leaves what lexicon returns unchanged
Skips(c) ==
    \A i \in 0..Len(input) :
        ~InsideDigitRun(input, i) => lexicon(InsertAt(input, i, c)) = lexicon(input)

(* C7 as claimed: for every input, inserting any whitespace character      *)
(* (space, tab, ...) at a position that is not inside a digit run leaves   *)
(* the returned token sequence unchanged, and whitespace never causes an   *)
(* error.                                                                  *)
C7_Original ==
    Starting => \A c \in Whitespace : Skips(c)

RECURSIVE WithoutSpaces(_)
WithoutSpaces(s) ==
    IF s = <<>> THEN <<>>
    ELSE IF Head(s) = " " THEN WithoutSpaces(Tail(s))
    ELSE <<Head(s)>> \o WithoutSpaces(Tail(s))

\* no two digits of s have only spaces between them
NoSplitRun(s) ==
    \A i, j \in 1..Len(s) :
        (i + 1 < j /\ is_ascii_digit(s[i]) /\ is_ascii_digit(s[j]))
            => \E k \in (i + 1)..(j - 1) : s[k] # " "

(* C7 as amended: the space character ' ' is skipped by lexicon and        *)
(* produces no token: for every input, inserting a space at a position     *)
(* that is not inside a digit run leaves what lexicon returns unchanged,   *)
(* and a space never causes an error; so lexicon returns for an input in   *)
(* which no two digits have only spaces between them the tokens of the     *)
(* input without its spaces.  Every other whitespace character is an       *)
(* unrecognized character.                                                 *)
C7_SpaceSkipped ==
    /\ Starting => Skips(" ")
    /\ (pc = "parse" /\ NoSplitRun(input) /\ Len(input) <= MaxLen) =>
            lexicon(WithoutSpaces(input)) = Ok(tokens)

\* "3 a": the space after the digit run goes through `leftover` and is skipped
C7_Witness ==
    /\ pc = "parse"
    /\ input = <<"3", " ", "a">>
    /\ tokens = <<Number(3), Plus, End>>
    /\ lexicon(<<"3", "a">>) = Ok(tokens)

-----------------------------------------------------------------------------
(* Digit runs.                                                             *)

IsDigits(s) == s # <<>> /\ \A i \in 1..Len(s) : is_ascii_digit(s[i])

(* C8: for all inputs consisting solely of ASCII decimal digits, lexicon   *)
(* returns exactly <<Number(v), End>> with v the base-10 value of the      *)
(* whole digit run, and eval_expr on that input returns v.                 *)
C8_DigitsOnly ==
    (IsDigits(input) /\ pc # "lex") =>
        /\ Len(tokens) = 2
        /\ tokens[1].type = "Number" /\ tokens[1].n = I64Value(input)
        /\ tokens[2] = End
        /\ pc = "done" => (outcome.kind = "ok" /\ outcome.val = I64Value(input))

-----------------------------------------------------------------------------
(* Unary minus.                                                            *)

\* the number of Dash tokens ts starts with
RECURSIVE LeadingDashes(_)
LeadingDashes(ts) ==
    IF ts # <<>> /\ Head(ts) = Dash THEN 1 + LeadingDashes(Tail(ts)) ELSE 0

RECURSIVE Negated(_, _)
Negated(k, x) == IF k = 0 THEN x ELSE EUnary("Negative", Negated(k - 1, x))

NegatedValue(k, v) == IF k % 2 = 0 THEN v ELSE 0 - v

(* C9: a Dash in primary position is unary negation of the single primary  *)
(* that follows and may nest: k Dash tokens before a primary p parse to k  *)
(* nested Unary(Negative, ..) around p and evaluate to the value of p      *)
(* negated k times; a Dash after a complete primary is binary Subtract.    *)
C9_UnaryMinus ==
    Parsed =>
        LET k == LeadingDashes(tokens)
            j == PrimaryEnd(tokens, k + 1)
            p == PrimaryTree(tokens, k + 1)
        IN
        \* Dash^k p End
        /\ (k >= 1 /\ j = Len(tokens)) =>
              /\ parsed = Ok(Negated(k, p))
              /\ (pc = "done" /\ PrimaryValue(tokens, k + 1).def) =>
                    outcome = Ok(NegatedValue(k, PrimaryValue(tokens, k + 1).v))
        \* Dash^k p op q End: the negations stay on p; p Dash q End: Subtract
        /\ (j # 0 /\ j < Len(tokens) /\ tokens[j].type \in BinaryTokens
                /\ (k >= 1 \/ tokens[j] = Dash)
                /\ PrimaryEnd(tokens, j + 1) = Len(tokens)) =>
              /\ parsed = Ok(EBinary(OperatorName(tokens[j]), Negated(k, p),
                                     PrimaryTree(tokens, j + 1)))
              /\ tokens[j] = Dash => parsed.val.op = "Subtract"

\* "3bb2" is 3 - (-2) = 5
C9_Witness ==
    /\ pc = "done"
    /\ input = <<"3", "b", "b", "2">>
    /\ parsed = Ok(EBinary("Subtract", ENumber(3), EUnary("Negative", ENumber(2))))
    /\ outcome = Ok(5)

-----------------------------------------------------------------------------
(* C10: on every token sequence lexicon returns, the parser never reads    *)
(* past End: the cursor still has a token whenever expression peeks or     *)
(* primary_expression or assert_next consumes; once End is consumed the    *)
(* parse has finished or returned an error; no unwrap fails and the        *)
(* "End of input unexpected" branch of assert_next is never taken.         *)
C10_NeverPastEnd ==
    /\ pc \in {"primary", "loop", "assert"} => HasNext
    /\ (pc \notin {"lex", "parse"} /\ tokens # <<>> /\ cur = Len(tokens)) =>
            pc \in {"eval", "done"}
    /\ pc = "done" =>
            /\ outcome.kind = "panic" => outcome.why # "called Option::unwrap() on a None value"
            /\ outcome.kind = "err" => Len(outcome.error.message) # 1

\* "3a": End is consumed where a primary is expected, and the error returns
C10_Witness ==
    /\ pc = "done"
    /\ tokens # <<>>
    /\ cur = Len(tokens)
    /\ outcome = Err(new_parse_error(<<"Unexpected token", End>>))

====
